---- MODULE Spec2Model ----
(***************************************************************************)
(* A model of the TXT-Parser core (txt_parser/parser.py, models.py) and of *)
(* the window's handlers (txt_parser/gui.py).                              *)
(*                                                                         *)
(* Python strings are modelled as sequences of one-character strings, so   *)
(* that splitting, trimming, prefix tests, substring tests, joining and    *)
(* number formatting are computed character by character, as the code      *)
(* computes them.                                                          *)
(***************************************************************************)
EXTENDS Integers, Sequences, FiniteSets, TLC

VARIABLES
    pc,           \* which function's input is ready / which result is computed
    file_text,    \* the decoded document (parse_num_blocks' text, lookup's full_text)
    block_text,   \* the argument of _extract_fields
    values,       \* the result of _extract_fields
    num_blocks,   \* list[NumBlock]
    diagnostics,  \* ParseDiagnostics
    requested,    \* requested_addresses
    lookup_rows,  \* list[LookupRow]
    markdown,     \* the result of rows_to_markdown
    raw_bytes,    \* the bytes of the file decode_file reads
    encoding      \* the source label decode_file returns

vars == <<pc, file_text, block_text, values, num_blocks, diagnostics,
          requested, lookup_rows, markdown, raw_bytes, encoding>>

----------------------------------------------------------------------------
(* Program constants: models.py and the head of parser.py.                 *)

NOT_FOUND_IN_BLOCK ==
    <<"n","o","t"," ","f","o","u","n","d"," ","i","n"," ","b","l","o","c","k">>
NOT_FOUND_IN_FILE ==
    <<"n","i","e","t"," ","g","e","v","o","n","d","e","n"," ","i","n"," ","b","e",
      "s","t","a","n","d">>
FOUND_OUTSIDE_NUM_BLOCK ==
    <<"g","e","v","o","n","d","e","n"," ","b","u","i","t","e","n"," ","N","U","M",
      "-","b","l","o","k">>
DELIMITER ==
    <<"N","u","m","e","r","a","l"," ","D","i","s","p","l","a","y"," ","&"," ","I",
      "n","p","u","t","[","N","U","M">>
LblAddress ==
    <<"A","d","d","r","e","s","s">>
LblUnitScale ==
    <<"U","n","i","t","S","c","a","l","e">>
LblSetUnitScale ==
    <<"S","e","t"," ","U","n","i","t","S","c","a","l","e">>
LblStorageType ==
    <<"S","t","o","r","a","g","e"," ","T","y","p","e">>
LblMinimumInputLimit ==
    <<"M","i","n","i","m","u","m"," ","I","n","p","u","t"," ","L","i","m","i","t">>
LblMaximumInputLimit ==
    <<"M","a","x","i","m","u","m"," ","I","n","p","u","t"," ","L","i","m","i","t">>
LblTimingRangeCheck ==
    <<"T","i","m","i","n","g"," ","o","f"," ","m","a","x","/","m","i","n"," ","r",
      "a","n","g","e"," ","c","h","e","c","k">>

\* FIELD_LABELS in dict order: the attribute and its accepted labels, in order.
FIELD_LABELS ==
    << [attr |-> "address_line",            labels |-> <<LblAddress>>],
       [attr |-> "unitscale_line",          labels |-> <<LblUnitScale, LblSetUnitScale>>],
       [attr |-> "storage_type_line",       labels |-> <<LblStorageType>>],
       [attr |-> "min_input_limit_line",    labels |-> <<LblMinimumInputLimit>>],
       [attr |-> "max_input_limit_line",    labels |-> <<LblMaximumInputLimit>>],
       [attr |-> "timing_range_check_line", labels |-> <<LblTimingRangeCheck>>] >>

AttrNames == {FIELD_LABELS[k].attr : k \in 1..Len(FIELD_LABELS)}

\* \d of the regular expressions, on the ASCII digits.
DigitChars == <<"0", "1", "2", "3", "4", "5", "6", "7", "8", "9">>

IsDigit(c) == \E d \in 1..Len(DigitChars) : DigitChars[d] = c

\* The characters str.strip() and str.lstrip() remove (those the inputs use).
Whitespace == {" ", "\t", "\n", "\r", "\f"}

----------------------------------------------------------------------------
(* Python string primitives.                                               *)

SetMin(S) == CHOOSE x \in S : \A y \in S : x <= y

SetMax(S) == CHOOSE x \in S : \A y \in S : x >= y

\* s[i : i + len(sub)] == sub
StartsAt(s, i, sub) ==
    /\ i >= 1
    /\ i + Len(sub) - 1 <= Len(s)
    /\ \A k \in 1..Len(sub) : s[i + k - 1] = sub[k]

\* str.startswith
StartsWith(s, prefix) == StartsAt(s, 1, prefix)

\* every index at which sub occurs in s
Occurrences(s, sub) == {i \in 1..(Len(s) - Len(sub) + 1) : StartsAt(s, i, sub)}

\* sub in s
Contains(s, sub) == Occurrences(s, sub) # {}

\* str.split(sep), sep non-empty: cut at the leftmost occurrence, go on behind it.
RECURSIVE Split(_, _)
Split(s, sep) ==
    LET occ == Occurrences(s, sep)
    IN  IF occ = {}
        THEN <<s>>
        ELSE LET i == SetMin(occ)
             IN  <<SubSeq(s, 1, i - 1)>> \o Split(SubSeq(s, i + Len(sep), Len(s)), sep)

\* str.lstrip()
RECURSIVE LStrip(_)
LStrip(s) == IF s # <<>> /\ Head(s) \in Whitespace THEN LStrip(Tail(s)) ELSE s

\* str.rstrip(chars)
RECURSIVE RStripChars(_, _)
RStripChars(s, chars) ==
    IF s # <<>> /\ s[Len(s)] \in chars
    THEN RStripChars(SubSeq(s, 1, Len(s) - 1), chars)
    ELSE s

\* str.strip()
Strip(s) == RStripChars(LStrip(s), Whitespace)

\* sep.join(items)
RECURSIVE Join(_, _)
Join(items, sep) ==
    IF items = <<>> THEN <<>>
    ELSE IF Len(items) = 1 THEN items[1]
    ELSE items[1] \o sep \o Join(Tail(items), sep)

----------------------------------------------------------------------------
(* _line_matches_label and _extract_fields.                                *)

line_matches_label(line, label) ==
    LET normalized_line == LStrip(line)
    IN  \/ normalized_line = label
        \/ StartsWith(normalized_line, label \o <<" ">>)
        \/ StartsWith(normalized_line, label \o <<":">>)

\* next((label for label in accepted_labels if ...), None): the index of the
\* first accepted label the line matches, 0 for None.
matched_label(line, accepted_labels) ==
    LET hits == {m \in 1..Len(accepted_labels) :
                    line_matches_label(line, accepted_labels[m])}
    IN  IF hits = {} THEN 0 ELSE SetMin(hits)

\* [line.rstrip("\r") for line in raw]
RECURSIVE RStripEach(_)
RStripEach(raw) ==
    IF raw = <<>>
    THEN <<>>
    ELSE <<RStripChars(Head(raw), {"\r"})>> \o RStripEach(Tail(raw))

\* lines = [line.rstrip("\r") for line in block_text.split("\n")]
BlockLines(text) == RStripEach(Split(text, <<"\n">>))

\* values = {meta[0]: NOT_FOUND_IN_BLOCK for meta in FIELD_LABELS.values()}
InitialValues == [a \in AttrNames |-> NOT_FOUND_IN_BLOCK]

\* Lines 66-71: the value a matching line gives (index is 1-based here).
FieldValueNoNextLine(lines, index, label) == LStrip(lines[index])

FieldValue(lines, index, label) ==
    LET normalized_line == LStrip(lines[index])
    IN  IF /\ normalized_line = label
           /\ index + 1 <= Len(lines)
           /\ Strip(lines[index + 1]) # <<>>
        THEN label \o <<" ">> \o Strip(lines[index + 1])
        ELSE normalized_line

\* Lines 59-71 without the test of line 59: a later label line overwrites.
ExtractStepOverwrite(current, lines, index, field) ==
    LET m == matched_label(lines[index], field.labels)
    IN  IF m = 0 THEN current ELSE FieldValue(lines, index, field.labels[m])

\* Lines 59-71: the body of the inner loop for one line and one field, as the
\* field's value after it, given values[attr_name] before it.
ExtractStep(current, lines, index, field) ==
    IF current # NOT_FOUND_IN_BLOCK
    THEN current
    ELSE LET m == matched_label(lines[index], field.labels)
         IN  IF m = 0 THEN current ELSE FieldValue(lines, index, field.labels[m])

\* the entry of FIELD_LABELS with the attribute
FieldOf(attr) ==
    FIELD_LABELS[CHOOSE k \in 1..Len(FIELD_LABELS) : FIELD_LABELS[k].attr = attr]

\* for ... in FIELD_LABELS.items(): each pass reads and writes the slot of its
\* own attribute only.
ScanFields(vals, lines, index) ==
    [a \in AttrNames |-> ExtractStep(vals[a], lines, index, FieldOf(a))]

\* for index, line in enumerate(lines): the values after the first n lines
RECURSIVE ScanLines(_, _)
ScanLines(lines, n) ==
    IF n = 0
    THEN InitialValues
    ELSE ScanFields(ScanLines(lines, n - 1), lines, n)

extract_fields(text) ==
    LET lines == BlockLines(text)
    IN  ScanLines(lines, Len(lines))

----------------------------------------------------------------------------
(* parse_num_blocks.                                                       *)

\* OBJECT_NUMBER_RE.match(part): four digits at the start of the segment.
object_match(part) == Len(part) >= 4 /\ \A i \in 1..4 : IsDigit(part[i])

NumBlock(part) ==
    LET reconstructed_block == DELIMITER \o part
        vals == extract_fields(reconstructed_block)
    IN  [object_number |->
            IF object_match(part)
            THEN <<"N", "U", "M">> \o SubSeq(part, 1, 4)
            ELSE NOT_FOUND_IN_BLOCK,
         raw_block_text          |-> reconstructed_block,
         address_line            |-> vals["address_line"],
         unitscale_line          |-> vals["unitscale_line"],
         storage_type_line       |-> vals["storage_type_line"],
         min_input_limit_line    |-> vals["min_input_limit_line"],
         max_input_limit_line    |-> vals["max_input_limit_line"],
         timing_range_check_line |-> vals["timing_range_check_line"]]

\* A parser that drops the segments whose object number cannot be read.
RECURSIVE KeepNumbered(_)
KeepNumbered(parts) ==
    IF parts = <<>> THEN <<>>
    ELSE IF object_match(Head(parts))
         THEN <<NumBlock(Head(parts))>> \o KeepNumbered(Tail(parts))
         ELSE KeepNumbered(Tail(parts))

parse_num_blocks_skipping(text) == KeepNumbered(Tail(Split(text, DELIMITER)))

parse_num_blocks(text) ==
    LET parts == Split(text, DELIMITER)
    IN  [i \in 1..(Len(parts) - 1) |-> NumBlock(parts[i + 1])]

----------------------------------------------------------------------------
(* _object_int and build_diagnostics.                                      *)

\* the value of one digit character
DigitValue(c) == (CHOOSE d \in 1..Len(DigitChars) : DigitChars[d] = c) - 1

\* int(digits)
RECURSIVE ParseInt(_)
ParseInt(digits) ==
    IF digits = <<>>
    THEN 0
    ELSE 10 * ParseInt(SubSeq(digits, 1, Len(digits) - 1)) + DigitValue(digits[Len(digits)])

\* int(object_number[3:])
object_int(object_number) == ParseInt(SubSeq(object_number, 4, Len(object_number)))

\* str(value), value >= 0
RECURSIVE Decimal(_)
Decimal(value) ==
    IF value < 10
    THEN <<DigitChars[value + 1]>>
    ELSE Decimal(value \div 10) \o <<DigitChars[(value % 10) + 1]>>

\* f"{value:04d}", value >= 0
RECURSIVE ZeroPad(_, _)
ZeroPad(digits, width) ==
    IF Len(digits) >= width THEN digits ELSE ZeroPad(<<"0">> \o digits, width)

\* f"NUM{value:04d}"
FormatNum(value) == <<"N", "U", "M">> \o ZeroPad(Decimal(value), 4)

\* re.fullmatch(r"NUM\d{4}", object_number)
is_canonical(object_number) ==
    /\ Len(object_number) = 7
    /\ SubSeq(object_number, 1, 3) = <<"N", "U", "M">>
    /\ \A i \in 4..7 : IsDigit(object_number[i])

\* sorted(..., key=_object_int) is stable: an item goes behind the items
\* already placed whose key is not greater.
RECURSIVE InsertByKey(_, _)
InsertByKey(placed, item) ==
    IF placed = <<>> \/ object_int(placed[Len(placed)]) <= object_int(item)
    THEN Append(placed, item)
    ELSE Append(InsertByKey(SubSeq(placed, 1, Len(placed) - 1), item), placed[Len(placed)])

RECURSIVE SortedByObjectInt(_)
SortedByObjectInt(items) ==
    IF items = <<>>
    THEN <<>>
    ELSE InsertByKey(SortedByObjectInt(SubSeq(items, 1, Len(items) - 1)), items[Len(items)])

\* [b.object_number for b in num_blocks if re.fullmatch(...)]
CanonicalNumbers(blocks) ==
    LET numbers == [i \in 1..Len(blocks) |-> blocks[i].object_number]
    IN  SelectSeq(numbers, is_canonical)

\* Lines 108-111, without the sort.
valid_numbers_unsorted(blocks) == CanonicalNumbers(blocks)

valid_numbers(blocks) == SortedByObjectInt(CanonicalNumbers(blocks))

\* for value in range(lo, hi + 1): if value not in present: missing.append(...)
RECURSIVE MissingInRange(_, _, _)
MissingInRange(lo, hi, present) ==
    IF lo > hi
    THEN <<>>
    ELSE (IF lo \in present THEN <<>> ELSE <<FormatNum(lo)>>)
             \o MissingInRange(lo + 1, hi, present)

\* Lines 112-118, with the range started at 1 instead of the minimum.
missing_from_one(valid) ==
    IF valid = <<>>
    THEN <<>>
    ELSE LET present == {object_int(valid[i]) : i \in 1..Len(valid)}
         IN  MissingInRange(1, SetMax(present), present)

\* Lines 112-118.
missing(valid) ==
    IF valid = <<>>
    THEN <<>>
    ELSE LET present == {object_int(valid[i]) : i \in 1..Len(valid)}
         IN  MissingInRange(SetMin(present), SetMax(present), present)

\* duplicates[address].append(object_number) on a defaultdict(list), which
\* keeps its keys in insertion order: a sequence of (address, object_numbers).
DictAppend(dict, address, object_number) ==
    LET at == {j \in 1..Len(dict) : dict[j].address = address}
    IN  IF at = {}
        THEN Append(dict, [address |-> address, object_numbers |-> <<object_number>>])
        ELSE [dict EXCEPT ![SetMin(at)].object_numbers = Append(@, object_number)]

\* Lines 120-123.
RECURSIVE duplicates(_)
duplicates(blocks) ==
    IF blocks = <<>>
    THEN <<>>
    ELSE LET before == duplicates(SubSeq(blocks, 1, Len(blocks) - 1))
             block  == blocks[Len(blocks)]
         IN  IF block.address_line # NOT_FOUND_IN_BLOCK
             THEN DictAppend(before, block.address_line, block.object_number)
             ELSE before

IsShared(entry) == Len(entry.object_numbers) > 1

IsHeld(entry) == Len(entry.object_numbers) >= 1

\* Lines 125-129, keeping every address that is held at all.
duplicate_addresses_held(blocks) == SelectSeq(duplicates(blocks), IsHeld)

\* Lines 125-129.
duplicate_addresses(blocks) == SelectSeq(duplicates(blocks), IsShared)

build_diagnostics(blocks) ==
    [num_block_count       |-> Len(blocks),
     sorted_object_numbers |-> valid_numbers(blocks),
     missing_numbers       |-> missing(valid_numbers(blocks)),
     duplicate_addresses   |-> duplicate_addresses(blocks)]

----------------------------------------------------------------------------
(* lookup_addresses and rows_to_markdown.                                  *)

AddressEthernet ==
    <<"A","d","d","r","e","s","s"," ","E","T","H","E","R","N","E","T",":">>
AddressPlain ==
    <<"A","d","d","r","e","s","s"," ">>

\* search_variants = [f"Address ETHERNET:{requested}", f"Address {requested}"]
search_variants(request) == <<AddressEthernet \o request, AddressPlain \o request>>

\* next((block for block in num_blocks if block.address_line in variants), None),
\* as the index of the block, 0 for None; the variant taking the last such block
match_in_block_last(blocks, variants) ==
    LET hits == {k \in 1..Len(blocks) :
                    \E v \in 1..Len(variants) : blocks[k].address_line = variants[v]}
    IN  IF hits = {} THEN 0 ELSE SetMax(hits)

match_in_block(blocks, variants) ==
    LET hits == {k \in 1..Len(blocks) :
                    \E v \in 1..Len(variants) : blocks[k].address_line = variants[v]}
    IN  IF hits = {} THEN 0 ELSE SetMin(hits)

\* An outside hit that takes the first form without looking in the text.
outside_hit_unchecked(variants, full_text) == 1

\* next((variant for variant in search_variants if variant in full_text), None),
\* as the index of the variant, 0 for None; the variant taking the last such form
outside_hit_last(variants, full_text) ==
    LET hits == {v \in 1..Len(variants) : Contains(full_text, variants[v])}
    IN  IF hits = {} THEN 0 ELSE SetMax(hits)

outside_hit(variants, full_text) ==
    LET hits == {v \in 1..Len(variants) : Contains(full_text, variants[v])}
    IN  IF hits = {} THEN 0 ELSE SetMin(hits)

\* Lines 147-191: the row appended for one request.
LookupRow(blocks, full_text, request) ==
    LET variants == search_variants(request)
        m == match_in_block(blocks, variants)
        o == outside_hit(variants, full_text)
    IN  IF m # 0
        THEN [requested_address  |-> request,
              object_number      |-> blocks[m].object_number,
              address_in_file    |-> blocks[m].address_line,
              unitscale          |-> blocks[m].unitscale_line,
              storage_type       |-> blocks[m].storage_type_line,
              min_input_limit    |-> blocks[m].min_input_limit_line,
              max_input_limit    |-> blocks[m].max_input_limit_line,
              timing_range_check |-> blocks[m].timing_range_check_line]
        ELSE IF o # 0
        THEN [requested_address  |-> request,
              object_number      |-> FOUND_OUTSIDE_NUM_BLOCK,
              address_in_file    |-> variants[o],
              unitscale          |-> NOT_FOUND_IN_BLOCK,
              storage_type       |-> NOT_FOUND_IN_BLOCK,
              min_input_limit    |-> NOT_FOUND_IN_BLOCK,
              max_input_limit    |-> NOT_FOUND_IN_BLOCK,
              timing_range_check |-> NOT_FOUND_IN_BLOCK]
        ELSE [requested_address  |-> request,
              object_number      |-> NOT_FOUND_IN_FILE,
              address_in_file    |-> NOT_FOUND_IN_FILE,
              unitscale          |-> NOT_FOUND_IN_BLOCK,
              storage_type       |-> NOT_FOUND_IN_BLOCK,
              min_input_limit    |-> NOT_FOUND_IN_BLOCK,
              max_input_limit    |-> NOT_FOUND_IN_BLOCK,
              timing_range_check |-> NOT_FOUND_IN_BLOCK]

\* A lookup that appends no row for a request found nowhere.
RECURSIVE lookup_addresses_dropping(_, _, _)
lookup_addresses_dropping(blocks, full_text, requests) ==
    IF requests = <<>>
    THEN <<>>
    ELSE LET before == lookup_addresses_dropping(blocks, full_text,
                                                 SubSeq(requests, 1, Len(requests) - 1))
             row    == LookupRow(blocks, full_text, requests[Len(requests)])
         IN  IF row.object_number = NOT_FOUND_IN_FILE THEN before ELSE Append(before, row)

\* for requested in requested_addresses: rows.append(...)
RECURSIVE lookup_addresses(_, _, _)
lookup_addresses(blocks, full_text, requests) ==
    IF requests = <<>>
    THEN <<>>
    ELSE Append(lookup_addresses(blocks, full_text, SubSeq(requests, 1, Len(requests) - 1)),
                LookupRow(blocks, full_text, requests[Len(requests)]))

HdrRequested ==
    <<"G","e","v","r","a","a","g","d"," ","A","d","d","r","e","s","s">>
HdrObjectNumber ==
    <<"O","b","j","e","c","t","n","u","m","m","e","r">>
HdrAddressInFile ==
    <<"A","d","d","r","e","s","s"," ","i","n"," ","f","i","l","e">>
CellSeparator ==
    <<" ","|"," ">>
RowOpen ==
    <<"|"," ">>
RowClose ==
    <<" ","|">>
HeaderRule ==
    <<"-","-","-">>

headers ==
    <<HdrRequested, HdrObjectNumber, HdrAddressInFile, LblUnitScale, LblStorageType,
      LblMinimumInputLimit, LblMaximumInputLimit, LblTimingRangeCheck>>

\* "| " + " | ".join(cells) + " |"
TableLine(cells) == RowOpen \o Join(cells, CellSeparator) \o RowClose

\* the cells of a row, in the order of lines 233-240
RowCells(row) ==
    <<row.requested_address, row.object_number, row.address_in_file, row.unitscale,
      row.storage_type, row.min_input_limit, row.max_input_limit, row.timing_range_check>>

rows_to_markdown(rows) ==
    LET lines == <<TableLine(headers), TableLine([h \in 1..Len(headers) |-> HeaderRule])>>
                     \o [i \in 1..Len(rows) |-> TableLine(RowCells(rows[i]))]
    IN  Join(lines, <<"\n">>)

----------------------------------------------------------------------------
(* decode_file: bytes are numbers 0..255, a decoded character is a         *)
(* one-character string.                                                   *)

\* the characters of code points 32..95 and 97..126, in code point order
AsciiUpTo95 ==
    <<" ","!","\"","#","$","%","&","'","(",")","*","+",",","-",".","/","0","1","2",
      "3","4","5","6","7","8","9",":",";","<","=",">","?","@","A","B","C","D","E",
      "F","G","H","I","J","K","L","M","N","O","P","Q","R","S","T","U","V","W","X",
      "Y","Z","[","\\","]","^","_">>
AsciiFrom97 ==
    <<"a","b","c","d","e","f","g","h","i","j","k","l","m","n","o","p","q","r","s",
      "t","u","v","w","x","y","z","{","|","}","~">>

\* the character of a code point; every other character is named by its
\* code point in angle brackets
Chr(cp) ==
    IF cp = 9 THEN "\t"
    ELSE IF cp = 10 THEN "\n"
    ELSE IF cp = 12 THEN "\f"
    ELSE IF cp = 13 THEN "\r"
    ELSE IF cp >= 32 /\ cp <= 95 THEN AsciiUpTo95[cp - 31]
    ELSE IF cp >= 97 /\ cp <= 126 THEN AsciiFrom97[cp - 96]
    ELSE ToString(<<cp>>)

Chars(code_points) == [i \in 1..Len(code_points) |-> Chr(code_points[i])]

IsContinuation(b) == b >= 128 /\ b <= 191

\* the number of bytes of the well-formed UTF-8 sequence starting at raw[i],
\* 0 when there is none
Utf8Length(raw, i) ==
    LET b    == raw[i]
        cont(k) == i + k <= Len(raw) /\ IsContinuation(raw[i + k])
    IN  IF b <= 127 THEN 1
        ELSE IF b >= 194 /\ b <= 223 THEN (IF cont(1) THEN 2 ELSE 0)
        ELSE IF b >= 224 /\ b <= 239
             THEN (IF /\ cont(1) /\ cont(2)
                      /\ (b = 224 => raw[i + 1] >= 160)
                      /\ (b = 237 => raw[i + 1] <= 159)
                   THEN 3 ELSE 0)
        ELSE IF b >= 240 /\ b <= 244
             THEN (IF /\ cont(1) /\ cont(2) /\ cont(3)
                      /\ (b = 240 => raw[i + 1] >= 144)
                      /\ (b = 244 => raw[i + 1] <= 143)
                   THEN 4 ELSE 0)
        ELSE 0

\* the code point of the well-formed sequence of n bytes starting at raw[i]
Utf8CodePoint(raw, i, n) ==
    IF n = 1 THEN raw[i]
    ELSE IF n = 2 THEN (raw[i] - 192) * 64 + (raw[i + 1] - 128)
    ELSE IF n = 3
         THEN (raw[i] - 224) * 4096 + (raw[i + 1] - 128) * 64 + (raw[i + 2] - 128)
    ELSE (raw[i] - 240) * 262144 + (raw[i + 1] - 128) * 4096
             + (raw[i + 2] - 128) * 64 + (raw[i + 3] - 128)

UnicodeDecodeError == <<-1>>

\* UTF-8 is self-synchronising: in well-formed input the sequences start at
\* exactly the bytes that are not continuation bytes.
Utf8Starts(raw) == {i \in 1..Len(raw) : ~IsContinuation(raw[i])}

\* the decoder, going left to right, finds a well-formed sequence at every
\* position it reaches
Utf8WellFormed(raw) ==
    /\ raw # <<>> => 1 \in Utf8Starts(raw)
    /\ \A i \in Utf8Starts(raw) :
           LET n == Utf8Length(raw, i)
           IN  /\ n > 0
               /\ i + n <= Len(raw) => (i + n) \in Utf8Starts(raw)

IsCodePoint(x) == x >= 0

\* raw.decode("utf-8"): the code points, or UnicodeDecodeError
Utf8Decode(raw) ==
    IF ~Utf8WellFormed(raw)
    THEN UnicodeDecodeError
    ELSE SelectSeq([i \in 1..Len(raw) |->
                       IF IsContinuation(raw[i])
                       THEN -1
                       ELSE Utf8CodePoint(raw, i, Utf8Length(raw, i))],
                   IsCodePoint)

\* raw.decode("latin-1"): every byte is its code point
Latin1Decode(raw) == raw

EncodingUtf8 ==
    <<"u","t","f","-","8">>
EncodingLatin1Fallback ==
    <<"l","a","t","i","n","-","1"," ","(","f","a","l","l","b","a","c","k",")">>

\* try utf-8, on UnicodeDecodeError latin-1; returns text, encoding
decode_file(raw) ==
    LET utf8 == Utf8Decode(raw)
    IN  IF utf8 # UnicodeDecodeError
        THEN [text |-> Chars(utf8), encoding |-> EncodingUtf8]
        ELSE [text |-> Chars(Latin1Decode(raw)), encoding |-> EncodingLatin1Fallback]

----------------------------------------------------------------------------
(* Inputs.  Documents are concatenations of fragments, so that delimiters, *)
(* labels, values and line breaks meet in every order.                     *)

MaxFragments == 4

MaxLines == 3

\* all concatenations of at most n members of pool
RECURSIVE ConcatsUpTo(_, _)
ConcatsUpTo(pool, n) ==
    IF n = 0
    THEN {<<>>}
    ELSE LET shorter == ConcatsUpTo(pool, n - 1)
         IN  shorter \cup {p \o f : p \in shorter, f \in pool}

\* the delimiter without its last character
DelimiterHead == SubSeq(DELIMITER, 1, Len(DELIMITER) - 1)

FragDigits ==
    <<"0","0","0","7">>
FragAddressLine ==
    <<"\n","A","d","d","r","e","s","s"," ","9">>
FragJunk ==
    <<"x">>

SegmentFragments ==
    {DELIMITER, DelimiterHead, <<"M">>, FragDigits, FragAddressLine, FragJunk}

SegmentTexts == ConcatsUpTo(SegmentFragments, MaxFragments)

LineBare ==
    <<"A","d","d","r","e","s","s">>
LineBareIndented ==
    <<" "," "," ","A","d","d","r","e","s","s">>
LineBareCR ==
    <<"A","d","d","r","e","s","s","\r">>
LineInline ==
    <<"A","d","d","r","e","s","s"," ","1","0","0">>
LineInlineColon ==
    <<"\t","A","d","d","r","e","s","s",":","9">>
LineNoLabel ==
    <<"A","d","d","r","e","s","s","x"," ","5">>
LineBlank ==
    <<>>
LineSpaces ==
    <<" "," ","\r">>
LineValue ==
    <<" ","3","0","0"," ","\r">>
LineUnitScale ==
    <<"U","n","i","t","S","c","a","l","e">>
LineSetUnitScale ==
    <<"S","e","t"," ","U","n","i","t","S","c","a","l","e"," ","4">>
LineStorageType ==
    <<"S","t","o","r","a","g","e"," ","T","y","p","e">>
LineMinimum ==
    <<" "," "," ","M","i","n","i","m","u","m"," ","I","n","p","u","t"," ","L","i",
      "m","i","t">>
LineMaximum ==
    <<"M","a","x","i","m","u","m"," ","I","n","p","u","t"," ","L","i","m","i","t",
      ":","9">>
LineTiming ==
    <<"T","i","m","i","n","g"," ","o","f"," ","m","a","x","/","m","i","n"," ","r",
      "a","n","g","e"," ","c","h","e","c","k"," ","C">>

LinePool ==
    {LineBare, LineBareIndented, LineBareCR, LineInline, LineInlineColon,
     LineNoLabel, LineBlank, LineSpaces, LineValue, LineUnitScale,
     LineSetUnitScale, LineStorageType, LineMinimum, LineMaximum, LineTiming}

BlockHead ==
    <<"0","0","0","1">>

\* a reconstructed block: the delimiter, an object number, then lines
BlockTexts ==
    {DELIMITER \o BlockHead \o body :
        body \in ConcatsUpTo({<<"\n">> \o l : l \in LinePool}, MaxLines)}

MaxBlocks == 3

Id0001 ==
    <<"0","0","0","1">>
Id0003 ==
    <<"0","0","0","3">>
Id0006 ==
    <<"0","0","0","6","]">>
IdMalformed ==
    <<"1","2","]">>
BodyInline ==
    <<"\n","A","d","d","r","e","s","s"," ","1","0","0","\n">>
BodyNextLine ==
    <<"\n","A","d","d","r","e","s","s","\n","E","T","H","E","R","N","E","T",":","2",
      "0","0","\n">>
BodyNoAddress ==
    <<"\n","U","n","i","t","S","c","a","l","e"," ","A","\n">>

\* one object block of a document: delimiter, object number, body
BlockSnippets ==
    {DELIMITER \o id \o body :
        id \in {Id0001, Id0003, Id0006, IdMalformed},
        body \in {BodyInline, BodyNextLine, BodyNoAddress}}

DiagnosticsTexts == ConcatsUpTo(BlockSnippets, MaxBlocks)

MaxLookupBlocks == 2

MaxRequests == 2

SnippetPlain ==
    <<"0","0","0","1","\n","A","d","d","r","e","s","s"," ","1","0","0","\n","U","n",
      "i","t","S","c","a","l","e"," ","A","\n","S","t","o","r","a","g","e"," ","T",
      "y","p","e"," ","B","\n">>
SnippetEthernet ==
    <<"0","0","0","3","]","\n","A","d","d","r","e","s","s","\n","E","T","H","E","R",
      "N","E","T",":","1","0","0","\n","S","e","t"," ","U","n","i","t","S","c","a",
      "l","e","\n","1","0","0","0","\n">>
SnippetUnnumbered ==
    <<"]","\n","A","d","d","r","e","s","s"," ","1","0","0","\n","M","i","n","i","m",
      "u","m"," ","I","n","p","u","t"," ","L","i","m","i","t"," ","1","\n">>
SnippetNoAddress ==
    <<"0","0","0","6","\n","M","a","x","i","m","u","m"," ","I","n","p","u","t"," ",
      "L","i","m","i","t"," ","9","\n">>
SnippetLonger ==
    <<"0","0","0","4","\n","A","d","d","r","e","s","s"," ","7","7","7","0","\n","T",
      "i","m","i","n","g"," ","o","f"," ","m","a","x","/","m","i","n"," ","r","a",
      "n","g","e"," ","c","h","e","c","k"," ","C","\n">>

\* blocks as parse_num_blocks builds them
LookupBlockPool ==
    {parse_num_blocks(DELIMITER \o body)[1] :
        body \in {SnippetPlain, SnippetEthernet, SnippetUnnumbered, SnippetNoAddress,
                  SnippetLonger}}

LookupBlockLists == ConcatsUpTo({<<b>> : b \in LookupBlockPool}, MaxLookupBlocks)

TextStray ==
    <<"H","e","a","d","e","r","\n","A","d","d","r","e","s","s"," ","7","7","7",
      "\n">>
TextBothForms ==
    <<"A","d","d","r","e","s","s"," ","1","0","0","\n","A","d","d","r","e","s","s",
      " ","E","T","H","E","R","N","E","T",":","1","0","0","\n">>

LookupTexts == {<<>>, TextStray, TextBothForms}

Request100 ==
    <<"1","0","0">>
Request777 ==
    <<"7","7","7">>
Request404 ==
    <<"4","0","4">>
RequestPipe ==
    <<"1"," ","|"," ","2">>

RequestLists ==
    ConcatsUpTo({<<r>> : r \in {Request100, Request777, Request404, RequestPipe}},
                MaxRequests)

----------------------------------------------------------------------------
(* State machine: each function of the core is applied to its input.      *)

NoDiagnostics ==
    [num_block_count |-> 0, sorted_object_numbers |-> <<>>,
     missing_numbers |-> <<>>, duplicate_addresses |-> <<>>]

InitSegment ==
    /\ pc = "text"
    /\ file_text \in SegmentTexts
    /\ block_text = <<>>
    /\ values = InitialValues
    /\ num_blocks = <<>>
    /\ diagnostics = NoDiagnostics
    /\ requested = <<>>
    /\ lookup_rows = <<>>
    /\ markdown = <<>>
    /\ raw_bytes = <<>>
    /\ encoding = <<>>

InitExtract ==
    /\ pc = "block"
    /\ block_text \in BlockTexts
    /\ file_text = <<>>
    /\ values = InitialValues
    /\ num_blocks = <<>>
    /\ diagnostics = NoDiagnostics
    /\ requested = <<>>
    /\ lookup_rows = <<>>
    /\ markdown = <<>>
    /\ raw_bytes = <<>>
    /\ encoding = <<>>

\* values = _extract_fields(block_text)
ExtractFields ==
    /\ pc = "block"
    /\ values' = extract_fields(block_text)
    /\ pc' = "extracted"
    /\ UNCHANGED <<file_text, block_text, num_blocks, diagnostics, requested,
                   lookup_rows, markdown,
                   raw_bytes, encoding>>

\* num_blocks = parse_num_blocks(file_text)
ParseNumBlocks ==
    /\ pc = "text"
    /\ num_blocks' = parse_num_blocks(file_text)
    /\ pc' = "parsed"
    /\ UNCHANGED <<file_text, block_text, values, diagnostics, requested,
                   lookup_rows, markdown,
                   raw_bytes, encoding>>

InitDiagnostics ==
    /\ pc = "text"
    /\ file_text \in DiagnosticsTexts
    /\ block_text = <<>>
    /\ values = InitialValues
    /\ num_blocks = <<>>
    /\ diagnostics = NoDiagnostics
    /\ requested = <<>>
    /\ lookup_rows = <<>>
    /\ markdown = <<>>
    /\ raw_bytes = <<>>
    /\ encoding = <<>>

\* diagnostics = build_diagnostics(num_blocks)
BuildDiagnostics ==
    /\ pc = "parsed"
    /\ diagnostics' = build_diagnostics(num_blocks)
    /\ pc' = "diagnosed"
    /\ UNCHANGED <<file_text, block_text, values, num_blocks, requested,
                   lookup_rows, markdown,
                   raw_bytes, encoding>>

NextDiagnostics == ParseNumBlocks \/ BuildDiagnostics

SpecDiagnostics == InitDiagnostics /\ [][NextDiagnostics]_vars

\* The block list and the text are independent arguments of lookup_addresses.
InitLookup ==
    /\ pc = "blocks"
    /\ num_blocks \in LookupBlockLists
    /\ file_text \in LookupTexts
    /\ requested \in RequestLists
    /\ block_text = <<>>
    /\ values = InitialValues
    /\ diagnostics = NoDiagnostics
    /\ lookup_rows = <<>>
    /\ markdown = <<>>
    /\ raw_bytes = <<>>
    /\ encoding = <<>>

\* lookup_rows = lookup_addresses(num_blocks, file_text, requested)
LookupAddresses ==
    /\ pc = "blocks"
    /\ lookup_rows' = lookup_addresses(num_blocks, file_text, requested)
    /\ pc' = "looked"
    /\ UNCHANGED <<file_text, block_text, values, num_blocks, diagnostics,
                   requested, markdown,
                   raw_bytes, encoding>>

\* markdown = rows_to_markdown(lookup_rows)
RowsToMarkdown ==
    /\ pc = "looked"
    /\ markdown' = rows_to_markdown(lookup_rows)
    /\ pc' = "rendered"
    /\ UNCHANGED <<file_text, block_text, values, num_blocks, diagnostics,
                   requested, lookup_rows,
                   raw_bytes, encoding>>

NextLookup == LookupAddresses \/ RowsToMarkdown

SpecLookup == InitLookup /\ [][NextLookup]_vars

NextSegment == ParseNumBlocks

SpecSegment == InitSegment /\ [][NextSegment]_vars

NextExtract == ExtractFields

SpecExtract == InitExtract /\ [][NextExtract]_vars

\* Documents for the parse-then-lookup pipeline: object blocks with the
\* address inline or on the line below its label, and an address outside
\* every address field.
BodyNextLinePlain ==
    <<"\n","A","d","d","r","e","s","s","\n","1","0","0","\n">>
BodyNextLineIndented ==
    <<"\n"," "," ","A","d","d","r","e","s","s","\r","\n","\t","E","T","H","E","R",
      "N","E","T",":","7","7","7"," ","\r","\n">>
StrayAddress ==
    <<"A","d","d","r","e","s","s"," ","7","7","7","\n">>

PipelineSnippets ==
    {DELIMITER \o Id0001 \o BodyInline, DELIMITER \o Id0003 \o BodyNextLinePlain,
     DELIMITER \o Id0006 \o BodyNextLineIndented, StrayAddress}

PipelineTexts == ConcatsUpTo(PipelineSnippets, MaxBlocks)

PipelineRequests ==
    ConcatsUpTo({<<r>> : r \in {Request100, Request777, Request404}}, MaxRequests)

InitPipeline ==
    /\ pc = "text"
    /\ file_text \in PipelineTexts
    /\ requested \in PipelineRequests
    /\ block_text = <<>>
    /\ values = InitialValues
    /\ num_blocks = <<>>
    /\ diagnostics = NoDiagnostics
    /\ lookup_rows = <<>>
    /\ markdown = <<>>
    /\ raw_bytes = <<>>
    /\ encoding = <<>>

\* lookup_rows = lookup_addresses(parse_num_blocks(file_text), file_text, requested)
LookupParsed ==
    /\ pc = "parsed"
    /\ lookup_rows' = lookup_addresses(num_blocks, file_text, requested)
    /\ pc' = "looked"
    /\ UNCHANGED <<file_text, block_text, values, num_blocks, diagnostics,
                   requested, markdown, raw_bytes, encoding>>

NextPipeline == ParseNumBlocks \/ LookupParsed

SpecPipeline == InitPipeline /\ [][NextPipeline]_vars

\* Files for decode_file: an object block head, an address on the line below
\* its label with escaped and with real line breaks, and a non-ASCII
\* character in its latin-1 and in its utf-8 encoding.
Ord(c) == CHOOSE cp \in 0..127 : Chr(cp) = c

\* the bytes Path.write_text(text, encoding="utf-8") writes for ASCII text
AsciiBytes(text) == [i \in 1..Len(text) |-> Ord(text[i])]

EscapedAddressBody ==
    <<"\\","n","A","d","d","r","e","s","s","\\","n","1","0","0">>
RealAddressBody ==
    <<"\n","A","d","d","r","e","s","s","\n","1","0","0">>

FileHead == AsciiBytes(DELIMITER \o Id0001)

ByteLatin1 == <<233>>

BytesUtf8 == <<195, 169>>

FileFragments ==
    {FileHead, AsciiBytes(EscapedAddressBody), AsciiBytes(RealAddressBody),
     ByteLatin1, BytesUtf8}

FileContents == ConcatsUpTo(FileFragments, MaxFragments)

InitDecode ==
    /\ pc = "file"
    /\ raw_bytes \in FileContents
    /\ file_text = <<>>
    /\ encoding = <<>>
    /\ block_text = <<>>
    /\ values = InitialValues
    /\ num_blocks = <<>>
    /\ diagnostics = NoDiagnostics
    /\ requested = <<>>
    /\ lookup_rows = <<>>
    /\ markdown = <<>>

\* file_text, encoding = decode_file(path)
DecodeFile ==
    /\ pc = "file"
    /\ file_text' = decode_file(raw_bytes).text
    /\ encoding' = decode_file(raw_bytes).encoding
    /\ pc' = "text"
    /\ UNCHANGED <<block_text, values, num_blocks, diagnostics, requested,
                   lookup_rows, markdown, raw_bytes>>

NextDecode == DecodeFile \/ ParseNumBlocks

SpecDecode == InitDecode /\ [][NextDecode]_vars

----------------------------------------------------------------------------
(* NumParserWindow (gui.py): the handlers of the Open, Parse and Run       *)
(* buttons, in any order.  pc is the outcome of the last handler.  The     *)
(* table and text widgets show file_text, num_blocks, diagnostics and      *)
(* lookup_rows and hold no state of their own that a handler reads.        *)

\* the files the file dialog can pick
WindowFiles ==
    {<<>>,
     AsciiBytes(StrayAddress),
     AsciiBytes(DELIMITER \o Id0001 \o BodyInline),
     AsciiBytes(DELIMITER \o Id0003 \o BodyNextLinePlain)}

\* the texts typed into address_input
Input100 ==
    <<"1","0","0">>
Input100And404 ==
    <<"1","0","0","\n","4","0","4">>
InputPadded ==
    <<" ","7","7","7"," ","\r","\n","\n","1","0","0","\n">>

AddressInputs == {<<>>, Input100, Input100And404, InputPadded}

LineBoundaries == {"\n", "\r", "\f"}

\* text.splitlines(), up to empty lines: the pieces between line boundaries
RECURSIVE SplitLines(_)
SplitLines(text) ==
    LET breaks == {i \in 1..Len(text) : text[i] \in LineBoundaries}
    IN  IF breaks = {}
        THEN <<text>>
        ELSE <<SubSeq(text, 1, SetMin(breaks) - 1)>>
                 \o SplitLines(SubSeq(text, SetMin(breaks) + 1, Len(text)))

NonEmpty(line) == line # <<>>

\* [line.strip() for line in text.splitlines() if line.strip()]
RequestedLines(text) ==
    LET lines == SplitLines(text)
    IN  SelectSeq([i \in 1..Len(lines) |-> Strip(lines[i])], NonEmpty)

\* __init__: file_text = "", num_blocks = [], lookup_rows = []
InitWindow ==
    /\ pc = "idle"
    /\ file_text = <<>>
    /\ num_blocks = <<>>
    /\ lookup_rows = <<>>
    /\ raw_bytes = <<>>
    /\ encoding = <<>>
    /\ block_text = <<>>
    /\ values = InitialValues
    /\ diagnostics = NoDiagnostics
    /\ requested = <<>>
    /\ markdown = <<>>

\* open_file, a file picked: file_text, encoding = decode_file(path)
open_file ==
    /\ \E content \in WindowFiles :
           /\ raw_bytes' = content
           /\ file_text' = decode_file(content).text
           /\ encoding' = decode_file(content).encoding
    /\ pc' = "opened"
    /\ UNCHANGED <<block_text, values, num_blocks, diagnostics, requested,
                   lookup_rows, markdown>>

\* open_file, the dialog cancelled: if not path: return
open_file_cancelled ==
    /\ pc' = "open cancelled"
    /\ UNCHANGED <<file_text, block_text, values, num_blocks, diagnostics,
                   requested, lookup_rows, markdown, raw_bytes, encoding>>

\* parse_file: warns without a text, else parses and builds the diagnostics
parse_file ==
    /\ IF file_text = <<>>
       THEN /\ pc' = "parse warned"
            /\ UNCHANGED <<num_blocks, diagnostics>>
       ELSE /\ num_blocks' = parse_num_blocks(file_text)
            /\ diagnostics' = build_diagnostics(parse_num_blocks(file_text))
            /\ pc' = "parse done"
    /\ UNCHANGED <<file_text, block_text, values, requested, lookup_rows,
                   markdown, raw_bytes, encoding>>

\* run_lookup: warns without a text, else looks the typed addresses up in
\* num_blocks and file_text as they are
run_lookup ==
    /\ IF file_text = <<>>
       THEN /\ pc' = "lookup warned"
            /\ UNCHANGED <<requested, lookup_rows>>
       ELSE \E input \in AddressInputs :
                /\ requested' = RequestedLines(input)
                /\ lookup_rows' =
                       lookup_addresses(num_blocks, file_text, RequestedLines(input))
                /\ pc' = "lookup done"
    /\ UNCHANGED <<file_text, block_text, values, num_blocks, diagnostics,
                   markdown, raw_bytes, encoding>>

NextWindow == open_file \/ open_file_cancelled \/ parse_file \/ run_lookup

SpecWindow == InitWindow /\ [][NextWindow]_vars

----------------------------------------------------------------------------
(* Claims about parse_num_blocks (SpecSegment).                            *)

\* the positions of the delimiter token in a text
DelimiterPositions(t) == Occurrences(t, DELIMITER)

\* the k-th smallest member of a set of numbers
NthSmallest(S, k) == CHOOSE p \in S : Cardinality({q \in S : q < p}) = k - 1

\* the text from the delimiter at position p up to the next delimiter or the end
SegmentAt(t, p) ==
    LET later == {q \in DelimiterPositions(t) : q > p}
    IN  SubSeq(t, p, IF later = {} THEN Len(t) ELSE SetMin(later) - 1)

\* C1: a text with n occurrences of the delimiter parses to exactly n blocks,
\* in document order: block k is the text from the k-th delimiter up to the
\* next one (or the end), whether or not its object number can be read, and
\* the text before the first delimiter is in no block.
C1_OneBlockPerDelimiter ==
    pc = "parsed" =>
        LET positions == DelimiterPositions(file_text)
        IN  /\ Len(num_blocks) = Cardinality(positions)
            /\ \A k \in 1..Len(num_blocks) :
                   /\ num_blocks[k].raw_block_text =
                          SegmentAt(file_text, NthSmallest(positions, k))
                   /\ num_blocks[k].object_number # NOT_FOUND_IN_BLOCK
                          <=> object_match(SubSeq(num_blocks[k].raw_block_text,
                                                  Len(DELIMITER) + 1,
                                                  Len(num_blocks[k].raw_block_text)))

\* Reached: text before the first delimiter, then two blocks, the first with
\* an unreadable object number and the second numbered.
C1_Witness ==
    /\ pc = "parsed"
    /\ file_text # <<>>
    /\ ~StartsWith(file_text, DELIMITER)
    /\ Len(num_blocks) = 2
    /\ num_blocks[1].object_number = NOT_FOUND_IN_BLOCK
    /\ num_blocks[2].object_number # NOT_FOUND_IN_BLOCK

----------------------------------------------------------------------------
(* Claims about _extract_fields (SpecExtract).                             *)

\* the line, left-trimmed, is exactly one of the field's accepted labels
IsBareLabel(line, field) ==
    \E m \in 1..Len(field.labels) : LStrip(line) = field.labels[m]

\* the line, left-trimmed, is an accepted label followed by a space or a colon
IsInlineLabel(line, field) ==
    \E m \in 1..Len(field.labels) :
        \E c \in {" ", ":"} : StartsWith(LStrip(line), field.labels[m] \o <<c>>)

\* the indices of the lines that are a label line of the field
LabelLines(lines, field) ==
    {i \in 1..Len(lines) : IsBareLabel(lines[i], field) \/ IsInlineLabel(lines[i], field)}

\* C5: for each of the six fields, at the field's label line (the first one
\* in the block): a bare label with a non-blank line directly below gives
\* label + " " + that line's content; a label with its value inline gives
\* the whole line, left-trimmed.
C5_FieldLayouts ==
    pc = "extracted" =>
        LET lines == BlockLines(block_text)
        IN  \A k \in 1..Len(FIELD_LABELS) :
                LET field == FIELD_LABELS[k]
                    found == LabelLines(lines, field)
                    i     == SetMin(found)
                IN  found # {} =>
                      /\ ( /\ IsBareLabel(lines[i], field)
                           /\ i < Len(lines)
                           /\ Strip(lines[i + 1]) # <<>> )
                         => values[field.attr] =
                                LStrip(lines[i]) \o <<" ">> \o Strip(lines[i + 1])
                      /\ IsInlineLabel(lines[i], field)
                         => values[field.attr] = LStrip(lines[i])

Address300 ==
    <<"A","d","d","r","e","s","s"," ","3","0","0">>
SetUnitScale4 ==
    <<"S","e","t"," ","U","n","i","t","S","c","a","l","e"," ","4">>

\* Reached: one field taken from the line below its label, another inline.
C5_Witness ==
    /\ pc = "extracted"
    /\ values["address_line"] = Address300
    /\ values["unitscale_line"] = SetUnitScale4

\* what the label line at index i gives, by the two layouts
ValueOfLabelLine(lines, i) ==
    IF i < Len(lines) /\ Strip(lines[i + 1]) # <<>>
       /\ \E k \in 1..Len(FIELD_LABELS) : IsBareLabel(lines[i], FIELD_LABELS[k])
    THEN LStrip(lines[i]) \o <<" ">> \o Strip(lines[i + 1])
    ELSE LStrip(lines[i])

\* C6: first match wins.  Each field's value is what its first label line
\* gives, whatever later label lines of the same field say (also when the
\* first one is a bare label over a blank line), and a field without any
\* label line keeps the "not found in block" sentinel.
C6_FirstMatchWins ==
    pc = "extracted" =>
        LET lines == BlockLines(block_text)
        IN  \A k \in 1..Len(FIELD_LABELS) :
                LET field == FIELD_LABELS[k]
                    found == LabelLines(lines, field)
                IN  values[field.attr] =
                        IF found = {}
                        THEN NOT_FOUND_IN_BLOCK
                        ELSE ValueOfLabelLine(lines, SetMin(found))

\* Reached: a bare "Address" over a blank line, then a later "Address 100";
\* the field is the bare label.
C6_Witness ==
    /\ pc = "extracted"
    /\ LET lines == BlockLines(block_text)
       IN  /\ Len(lines) = 4
           /\ lines[2] = LineBare
           /\ lines[3] = LineBlank
           /\ lines[4] = LineInline
    /\ values["address_line"] = LblAddress

----------------------------------------------------------------------------
(* Claims about build_diagnostics (SpecDiagnostics).                       *)

\* "NUM" followed by exactly four digits
IsCanonicalId(id) ==
    /\ Len(id) = 7
    /\ id[1] = "N" /\ id[2] = "U" /\ id[3] = "M"
    /\ \A i \in 4..7 : \E d \in 0..9 : DigitChars[d + 1] = id[i]

\* the number a digit character stands for
DigitOf(c) == CHOOSE d \in 0..9 : DigitChars[d + 1] = c

\* the numeric value of a canonical identifier
NumericValue(id) ==
    1000 * DigitOf(id[4]) + 100 * DigitOf(id[5]) + 10 * DigitOf(id[6]) + DigitOf(id[7])

\* the canonical identifier of a number below 10000
CanonicalId(n) ==
    <<"N", "U", "M", DigitChars[(n \div 1000) + 1], DigitChars[((n \div 100) % 10) + 1],
      DigitChars[((n \div 10) % 10) + 1], DigitChars[(n % 10) + 1]>>

\* the indices of the blocks with a canonical identifier
CanonicalBlocks(blocks) ==
    {k \in 1..Len(blocks) : IsCanonicalId(blocks[k].object_number)}

\* the numeric values present among the canonical identifiers
PresentValues(blocks) ==
    {NumericValue(blocks[k].object_number) : k \in CanonicalBlocks(blocks)}

\* the members of a sequence, as a set
Members(seq) == {seq[i] : i \in 1..Len(seq)}

\* C7: missing_numbers is, in ascending order and without repetition, exactly
\* the canonical identifiers whose value lies between the least and the
\* greatest value present and is not present; it is empty with fewer than two
\* distinct values, and nothing below the least or above the greatest is
\* reported.
C7_MissingNumbers ==
    pc = "diagnosed" =>
        LET present == PresentValues(num_blocks)
            gaps    == IF present = {}
                       THEN {}
                       ELSE (SetMin(present)..SetMax(present)) \ present
            got     == diagnostics.missing_numbers
        IN  /\ Members(got) = {CanonicalId(n) : n \in gaps}
            /\ Len(got) = Cardinality(gaps)
            /\ \A i \in 1..Len(got) : \A j \in 1..Len(got) :
                   i < j => NumericValue(got[i]) < NumericValue(got[j])
            /\ Cardinality(present) <= 1 => got = <<>>

Num0001 ==
    <<"N","U","M","0","0","0","1">>
Num0002 ==
    <<"N","U","M","0","0","0","2">>
Num0003 ==
    <<"N","U","M","0","0","0","3">>

\* Reached: identifiers NUM0003 and NUM0001 (and no other value) give [NUM0002].
C7_Witness ==
    /\ pc = "diagnosed"
    /\ PresentValues(num_blocks) = {1, 3}
    /\ diagnostics.missing_numbers = <<Num0002>>

\* the object numbers of the blocks holding an address, in block order
RECURSIVE HoldersOf(_, _)
HoldersOf(blocks, address) ==
    IF blocks = <<>>
    THEN <<>>
    ELSE (IF Head(blocks).address_line = address
          THEN <<Head(blocks).object_number>>
          ELSE <<>>) \o HoldersOf(Tail(blocks), address)

\* the addresses, other than the sentinel, that two or more blocks hold
SharedAddresses(blocks) ==
    {a \in {blocks[k].address_line : k \in 1..Len(blocks)} :
        /\ a # NOT_FOUND_IN_BLOCK
        /\ Cardinality({k \in 1..Len(blocks) : blocks[k].address_line = a}) >= 2}

\* C8: the keys of duplicate_addresses are exactly the addresses, other than
\* the sentinel, that two or more blocks hold, each key once, and each maps
\* to the object numbers of all the blocks holding it, in block order.
C8_DuplicateAddresses ==
    pc = "diagnosed" =>
        LET dups == diagnostics.duplicate_addresses
        IN  /\ {dups[j].address : j \in 1..Len(dups)} = SharedAddresses(num_blocks)
            /\ Len(dups) = Cardinality(SharedAddresses(num_blocks))
            /\ \A j \in 1..Len(dups) :
                   dups[j].object_numbers = HoldersOf(num_blocks, dups[j].address)

Address100 ==
    <<"A","d","d","r","e","s","s"," ","1","0","0">>

\* Reached: three blocks, two sharing "Address 100" (one of them with a
\* malformed identifier), one holding another address alone.
C8_Witness ==
    /\ pc = "diagnosed"
    /\ Len(num_blocks) = 3
    /\ num_blocks[1].address_line = Address100
    /\ num_blocks[2].address_line \notin {Address100, NOT_FOUND_IN_BLOCK}
    /\ num_blocks[3].address_line = Address100
    /\ diagnostics.duplicate_addresses =
           << [address |-> Address100,
               object_numbers |-> <<Num0003, NOT_FOUND_IN_BLOCK>>] >>

\* how many times x occurs in a sequence
CountIn(seq, x) == Cardinality({i \in 1..Len(seq) : seq[i] = x})

\* the blocks with a canonical identifier, in block order
RECURSIVE OnlyCanonical(_)
OnlyCanonical(blocks) ==
    IF blocks = <<>>
    THEN <<>>
    ELSE (IF IsCanonicalId(Head(blocks).object_number) THEN <<Head(blocks)>> ELSE <<>>)
             \o OnlyCanonical(Tail(blocks))

\* C9: num_block_count counts every block, malformed identifiers included;
\* sorted_object_numbers holds the canonical identifiers only, one entry per
\* block that has one, in ascending numeric order; blocks with a malformed
\* identifier change neither that list nor the gaps.
C9_CountAndSortedNumbers ==
    pc = "diagnosed" =>
        LET sorted == diagnostics.sorted_object_numbers
            ids    == [k \in 1..Len(num_blocks) |-> num_blocks[k].object_number]
        IN  /\ diagnostics.num_block_count = Len(num_blocks)
            /\ \A i \in 1..Len(sorted) : IsCanonicalId(sorted[i])
            /\ Len(sorted) = Cardinality(CanonicalBlocks(num_blocks))
            /\ \A k \in CanonicalBlocks(num_blocks) :
                   CountIn(sorted, ids[k]) = CountIn(ids, ids[k])
            /\ \A i \in 1..Len(sorted) : \A j \in 1..Len(sorted) :
                   i < j => NumericValue(sorted[i]) <= NumericValue(sorted[j])
            /\ diagnostics.missing_numbers =
                   build_diagnostics(OnlyCanonical(num_blocks)).missing_numbers

\* Reached: NUM0003, a malformed identifier, NUM0001: three blocks counted,
\* two identifiers listed, in numeric order.
C9_Witness ==
    /\ pc = "diagnosed"
    /\ Len(num_blocks) = 3
    /\ num_blocks[1].object_number = Num0003
    /\ num_blocks[2].object_number = NOT_FOUND_IN_BLOCK
    /\ num_blocks[3].object_number = Num0001
    /\ diagnostics.num_block_count = 3
    /\ diagnostics.sorted_object_numbers = <<Num0001, Num0003>>

----------------------------------------------------------------------------
(* Claims about lookup_addresses and rows_to_markdown (SpecLookup).        *)

Looked == pc \in {"looked", "rendered"}

\* the two forms a requested address may take in a block
CandidateForms(request) ==
    {AddressEthernet \o request, AddressPlain \o request}

\* the blocks whose address field is one of the candidate forms
MatchingBlocks(blocks, request) ==
    {k \in 1..Len(blocks) : blocks[k].address_line \in CandidateForms(request)}

FiveFields == {"unitscale", "storage_type", "min_input_limit", "max_input_limit",
               "timing_range_check"}

\* the three tiers, read off a row
InBlockTier(row, blocks) ==
    \E k \in MatchingBlocks(blocks, row.requested_address) :
        /\ row.object_number = blocks[k].object_number
        /\ row.address_in_file = blocks[k].address_line

OutsideTier(row) ==
    /\ row.object_number = FOUND_OUTSIDE_NUM_BLOCK
    /\ row.address_in_file \in CandidateForms(row.requested_address)

NotFoundTier(row) ==
    /\ row.object_number = NOT_FOUND_IN_FILE
    /\ row.address_in_file = NOT_FOUND_IN_FILE

\* C2: one row per request, in request order, row i carrying request i, and
\* every row in exactly one of the three tiers.
C2_OneRowPerRequest ==
    Looked =>
        /\ Len(lookup_rows) = Len(requested)
        /\ \A i \in 1..Len(requested) :
               LET row == lookup_rows[i]
               IN  /\ row.requested_address = requested[i]
                   /\ Cardinality({t \in {"block", "outside", "none"} :
                          \/ t = "block" /\ InBlockTier(row, num_blocks)
                          \/ t = "outside" /\ OutsideTier(row)
                          \/ t = "none" /\ NotFoundTier(row)}) = 1

\* Reached: the requests 100, 404 answered from a block and as not found.
C2_Witness ==
    /\ Looked
    /\ requested = <<Request100, Request404>>
    /\ Len(lookup_rows) = 2
    /\ InBlockTier(lookup_rows[1], num_blocks)
    /\ NotFoundTier(lookup_rows[2])

\* C3: when a block's address field equals a candidate form, the row is the
\* first such block's object number, address field and five other fields,
\* whether or not a candidate form also occurs in the document text.
C3_BlockMatchFirst ==
    Looked =>
        \A i \in 1..Len(requested) :
            LET hits == MatchingBlocks(num_blocks, requested[i])
                row  == lookup_rows[i]
                b    == num_blocks[SetMin(hits)]
            IN  hits # {} =>
                  /\ row.object_number = b.object_number
                  /\ row.address_in_file = b.address_line
                  /\ row.unitscale = b.unitscale_line
                  /\ row.storage_type = b.storage_type_line
                  /\ row.min_input_limit = b.min_input_limit_line
                  /\ row.max_input_limit = b.max_input_limit_line
                  /\ row.timing_range_check = b.timing_range_check_line

\* Reached: two blocks match the request 100, the first of them with the
\* network-qualified form, the text holds the plain form as well, and the row
\* is the first block's.
C3_Witness ==
    /\ Looked
    /\ requested # <<>> /\ requested[1] = Request100
    /\ Len(num_blocks) = 2
    /\ num_blocks[1].address_line = AddressEthernet \o Request100
    /\ num_blocks[2].address_line = AddressPlain \o Request100
    /\ Contains(file_text, AddressPlain \o Request100)
    /\ lookup_rows[1].object_number = Num0003
    /\ lookup_rows[1].address_in_file = AddressEthernet \o Request100

\* C4: when no block's address field equals a candidate form, a candidate
\* form occurring in the document text gives the "found outside NUM block"
\* sentinel, that candidate form (the network-qualified one when both occur)
\* and five sentinels; otherwise "not found in file" twice and five sentinels.
C4_OutsideOrNotFound ==
    Looked =>
        \A i \in 1..Len(requested) :
            LET row      == lookup_rows[i]
                ethernet == AddressEthernet \o requested[i]
                plain    == AddressPlain \o requested[i]
            IN  MatchingBlocks(num_blocks, requested[i]) = {} =>
                  /\ \A f \in FiveFields : row[f] = NOT_FOUND_IN_BLOCK
                  /\ IF Contains(file_text, ethernet) \/ Contains(file_text, plain)
                     THEN /\ row.object_number = FOUND_OUTSIDE_NUM_BLOCK
                          /\ row.address_in_file =
                                 IF Contains(file_text, ethernet) THEN ethernet ELSE plain
                     ELSE /\ row.object_number = NOT_FOUND_IN_FILE
                          /\ row.address_in_file = NOT_FOUND_IN_FILE

\* Reached: no block matches; 777 is found in the text outside the blocks
\* and 404 nowhere.
C4_Witness ==
    /\ Looked
    /\ requested = <<Request777, Request404>>
    /\ num_blocks # <<>>
    /\ lookup_rows[1].object_number = FOUND_OUTSIDE_NUM_BLOCK
    /\ lookup_rows[1].address_in_file = AddressPlain \o Request777
    /\ lookup_rows[2].object_number = NOT_FOUND_IN_FILE

\* the cells of a table line: the text between "| " and " |", cut at " | "
ParseCells(line) == Split(SubSeq(line, Len(RowOpen) + 1, Len(line) - Len(RowClose)),
                          CellSeparator)

\* C10: the rendered table has one data line per row, in row order, after the
\* two header lines, and the cells of each data line, cut at " | ", are the
\* row's eight attributes in attribute order.
C10_MarkdownRoundTrip ==
    pc = "rendered" =>
        LET lines == Split(markdown, <<"\n">>)
        IN  /\ Len(lines) = 2 + Len(lookup_rows)
            /\ \A i \in 1..Len(lookup_rows) :
                   ParseCells(lines[2 + i]) =
                       <<lookup_rows[i].requested_address, lookup_rows[i].object_number,
                         lookup_rows[i].address_in_file, lookup_rows[i].unitscale,
                         lookup_rows[i].storage_type, lookup_rows[i].min_input_limit,
                         lookup_rows[i].max_input_limit,
                         lookup_rows[i].timing_range_check>>

----------------------------------------------------------------------------
(* Claims about parse_num_blocks followed by lookup_addresses              *)
(* (SpecPipeline).                                                         *)

\* the text is a bare Address label on a line of a block, one space, and the
\* trimmed content of the block's next line
JoinedFromNextLine(blocks, address) ==
    \E k \in 1..Len(blocks) :
        LET lines == BlockLines(blocks[k].raw_block_text)
        IN  \E i \in 1..(Len(lines) - 1) :
                /\ LStrip(lines[i]) = LblAddress
                /\ Strip(lines[i + 1]) # <<>>
                /\ address = LblAddress \o <<" ">> \o Strip(lines[i + 1])

\* C11, as stated: in every row of a lookup over the parsed document,
\* address_in_file is the "not found in file" sentinel or a substring of the
\* document text.
C11_AddressOccursInText ==
    pc = "looked" =>
        \A i \in 1..Len(lookup_rows) :
            \/ lookup_rows[i].address_in_file = NOT_FOUND_IN_FILE
            \/ Contains(file_text, lookup_rows[i].address_in_file)

\* C11, amended: in every row of a lookup over the parsed document,
\* address_in_file is the "not found in file" sentinel, or a substring of the
\* document text, or, for a block whose Address label stands alone on its
\* line, the label and the trimmed content of the next line joined by one
\* space.
C11_AddressOccursOrJoined ==
    pc = "looked" =>
        \A i \in 1..Len(lookup_rows) :
            \/ lookup_rows[i].address_in_file = NOT_FOUND_IN_FILE
            \/ Contains(file_text, lookup_rows[i].address_in_file)
            \/ JoinedFromNextLine(num_blocks, lookup_rows[i].address_in_file)

\* Reached: the request 100 answered by a block whose address is joined from
\* two lines and occurs nowhere in the text, beside a request found nowhere.
C11_Witness ==
    /\ pc = "looked"
    /\ requested = <<Request100, Request404>>
    /\ lookup_rows[1].address_in_file = AddressPlain \o Request100
    /\ ~Contains(file_text, AddressPlain \o Request100)
    /\ JoinedFromNextLine(num_blocks, lookup_rows[1].address_in_file)
    /\ lookup_rows[2].address_in_file = NOT_FOUND_IN_FILE

----------------------------------------------------------------------------
(* Claims about decode_file (SpecDecode).                                  *)

\* a backslash followed by the letter n, as bytes and as characters
EscapedNewlineBytes == <<92, 110>>

EscapedNewline ==
    <<"\\","n">>

LabelNormalization ==
    <<"e","s","c","a","p","e","d","-","n","e","w","l","i","n","e","-","n","o","r",
      "m","a","l","i","z","a","t","i","o","n">>

\* the file of test_decode_file_normalizes_escaped_newlines
EscapedSampleFile == FileHead \o AsciiBytes(EscapedAddressBody)

\* C12: a file whose content carries escaped newlines is decoded to a text
\* without them, with a source label containing
\* "escaped-newline-normalization", and the sample file's block parsed from
\* that text has the address "Address 100".
C12_EscapedNewlinesNormalized ==
    (pc = "parsed" /\ Contains(raw_bytes, EscapedNewlineBytes)) =>
        /\ Contains(encoding, LabelNormalization)
        /\ ~Contains(file_text, EscapedNewline)
        /\ raw_bytes = EscapedSampleFile =>
               /\ num_blocks # <<>>
               /\ num_blocks[1].address_line = Address100

----------------------------------------------------------------------------
(* Claims about NumParserWindow (SpecWindow).                              *)

\* C13: whenever run_lookup has performed a lookup (has not shown its
\* warning), the num_blocks it passed to lookup_addresses are
\* parse_num_blocks(file_text) for the loaded file_text: never the blocks
\* of no parse, never those of a file opened earlier.
C13_LookupOnParsedBlocks ==
    pc = "lookup done" => num_blocks = parse_num_blocks(file_text)

====
